---- MODULE Spec2Model ----
(***************************************************************************)
(* Paystack virtual-accounts demo: the three file-backed record stores     *)
(* (transactions, customers, accounts), the three provider-backed request  *)
(* handlers and the webhook reconciler of src/app.ts.                      *)
(*                                                                         *)
(* A JavaScript object is a function from field names to values; a field   *)
(* that is absent or undefined is a name outside the function's DOMAIN.    *)
(* A Map is the sequence of its values in insertion order, keyed by the    *)
(* record's id.  A backing file is the JSON array it holds, as parsed.     *)
(***************************************************************************)
EXTENDS Integers, Sequences, FiniteSets, TLC

VARIABLES
  transactions,      \* TransactionDatabase.transactions (Map, insertion order)
  transactionsFile,  \* transactions.json
  customers,         \* CustomerDatabase.customers
  customersFile,     \* stores/customers.json
  accounts,          \* AccountDatabase.accounts
  accountsFile,      \* stores/accounts.json
  issued,            \* ids handed out so far by each store's generateId
  inflight,          \* requests suspended at `await paystackApi.post(...)`
  res,               \* the HTTP response of the request that completed last
  ret,               \* the value returned by the store operation called last
  last               \* history of the request that completed last: whether it
                     \* changed a store (wrote), and whether another request
                     \* had changed that store while it was suspended (stale)

vars == <<transactions, transactionsFile, customers, customersFile,
          accounts, accountsFile, issued, inflight, res, ret, last>>

---------------------------------------------------------------------------
(* Bounds of the model.                                                    *)

\* Records stored plus requests in flight, over the three stores.
MaxRecords == 2
\* Largest wallet balance (in naira) a webhook may produce.
MaxBalance == 100
\* Ids one store hands out in the store-level specification.
MaxIds == 2
\* Ids one store hands out in the specification where writes may fail.
MaxFaultIds == 1

---------------------------------------------------------------------------
(* JavaScript values.                                                      *)

\* The value `undefined` returned by a lookup that finds nothing.
Undefined == [undefined |-> TRUE]

\* The object {}.
EmptyObject == [f \in {} |-> 0]

\* A number-typed field that may hold NaN or null: <<tag, value>>.
Num(n) == <<"number", n>>
NaN == <<"NaN", 0>>
Null == <<"null", 0>>

\* { ...a, ...b }
Spread(a, b) ==
  [f \in (DOMAIN a) \cup (DOMAIN b) |-> IF f \in DOMAIN b THEN b[f] ELSE a[f]]

\* customer.walletBalance + n: undefined + n and NaN + n are NaN, null + n is n.
JsAdd(obj, field, n) ==
  IF field \notin DOMAIN obj THEN NaN
  ELSE IF obj[field] = NaN THEN NaN
  ELSE IF obj[field] = Null THEN Num(n)
  ELSE Num(obj[field][2] + n)

\* JSON.parse(JSON.stringify(record)): NaN is written as null; an undefined
\* field is not written at all (it is already outside the DOMAIN).
JsonRoundTrip(rec) ==
  [f \in DOMAIN rec |->
     IF f = "walletBalance" /\ rec[f] = NaN THEN Null ELSE rec[f]]

---------------------------------------------------------------------------
(* Map operations on a sequence of records keyed by id.                    *)

Index(map, id) ==
  IF \E i \in 1..Len(map) : map[i].id = id
  THEN CHOOSE i \in 1..Len(map) : map[i].id = id
  ELSE 0

\* Map.prototype.get
MapGet(map, id) == IF Index(map, id) = 0 THEN Undefined ELSE map[Index(map, id)]

\* Map.prototype.set: an existing key keeps its place, a new key goes last.
MapSet(map, id, rec) ==
  IF Index(map, id) = 0 THEN Append(map, rec)
  ELSE [map EXCEPT ![Index(map, id)] = rec]

\* Map.prototype.delete
MapDelete(map, id) ==
  IF Index(map, id) = 0 THEN map
  ELSE SubSeq(map, 1, Index(map, id) - 1) \o SubSeq(map, Index(map, id) + 1, Len(map))

\* Reading a field that may be absent, for comparison with ===.
Field(obj, f) == IF f \in DOMAIN obj THEN obj[f] ELSE "undefined"

\* Array.from(map.values()).find((x) => x[field] === value): the first record
\* whose field is the value, or undefined.
FindFirst(map, field, value) ==
  IF \E i \in 1..Len(map) : Field(map[i], field) = value
  THEN map[CHOOSE i \in 1..Len(map) :
             /\ Field(map[i], field) = value
             /\ \A j \in 1..(i - 1) : Field(map[j], field) # value]
  ELSE Undefined

---------------------------------------------------------------------------
(* The record store (the three classes are the same code but for create).  *)

NoFile == [exists |-> FALSE, data |-> <<>>]

\* saveToFile: the whole map is written; a failed write is caught and logged.
\* (a faulty saveToFile whose failed write leaves a truncated, empty file)
SaveToFile_truncates(map, file, writeOk) ==
  IF writeOk
  THEN [exists |-> TRUE, data |-> [i \in 1..Len(map) |-> JsonRoundTrip(map[i])]]
  ELSE [exists |-> TRUE, data |-> <<>>]

SaveToFile(map, file, writeOk) ==
  IF writeOk
  THEN [exists |-> TRUE, data |-> [i \in 1..Len(map) |-> JsonRoundTrip(map[i])]]
  ELSE file

\* new Map(records.map((t) => [t.id, t]))
RECURSIVE FromEntries(_, _)
FromEntries(records, acc) ==
  IF records = <<>> THEN acc
  ELSE FromEntries(Tail(records), MapSet(acc, Head(records).id, Head(records)))

\* constructor + loadFromFile: an empty map, replaced by the file's records
\* when the file exists.
LoadFromFile(file) == IF file.exists THEN FromEntries(file.data, <<>>) ELSE <<>>

\* getAll
GetAll(map) == map

\* findById
FindById(map, id) == MapGet(map, id)

\* update(id, updates)
\* (a faulty update that stores the updates alone, without the existing fields)
Update_replace(map, file, id, updates, writeOk) ==
  IF MapGet(map, id) = Undefined
  THEN [map |-> map, file |-> file, ret |-> Undefined]
  ELSE LET updated == Spread([id |-> id], updates)
           newMap == MapSet(map, id, updated)
       IN [map |-> newMap, file |-> SaveToFile(newMap, file, writeOk), ret |-> updated]

Update(map, file, id, updates, writeOk) ==
  LET existing == MapGet(map, id) IN
  IF existing = Undefined
  THEN [map |-> map, file |-> file, ret |-> Undefined]
  ELSE LET updated == Spread(existing, updates)
           newMap == MapSet(map, id, updated)
       IN [map |-> newMap, file |-> SaveToFile(newMap, file, writeOk), ret |-> updated]

\* delete(id)
\* (a faulty delete that saves and returns true whether or not the id was stored)
Delete_alwaysTrue(map, file, id, writeOk) ==
  LET newMap == MapDelete(map, id)
  IN [map |-> newMap, file |-> SaveToFile(newMap, file, writeOk), ret |-> TRUE]

Delete(map, file, id, writeOk) ==
  LET result == Index(map, id) # 0
      newMap == MapDelete(map, id)
  IN [map |-> newMap,
      file |-> IF result THEN SaveToFile(newMap, file, writeOk) ELSE file,
      ret |-> result]

\* generateId: `txn_${Date.now()}_${random}`; the model takes the id to be one
\* the store has not handed out before, the n-th id being n.
GenerateId(n) == n + 1

\* TransactionDatabase.create: { id, ...transaction, status: 'pending' }
\* (a faulty create that writes its record over the records stored, and one
\* that leaves out the status)
TransactionCreate_overwrite(map, file, id, transaction, writeOk) ==
  LET newTransaction == Spread(Spread([id |-> id], transaction), [status |-> "pending"])
      newMap == <<newTransaction>>
  IN [map |-> newMap, file |-> SaveToFile(newMap, file, writeOk), ret |-> newTransaction]

TransactionCreate_noStatus(map, file, id, transaction, writeOk) ==
  LET newTransaction == Spread([id |-> id], transaction)
      newMap == MapSet(map, id, newTransaction)
  IN [map |-> newMap, file |-> SaveToFile(newMap, file, writeOk), ret |-> newTransaction]

TransactionCreate(map, file, id, transaction, writeOk) ==
  LET newTransaction == Spread(Spread([id |-> id], transaction), [status |-> "pending"])
      newMap == MapSet(map, id, newTransaction)
  IN [map |-> newMap, file |-> SaveToFile(newMap, file, writeOk), ret |-> newTransaction]

\* CustomerDatabase.create: { id, ...customer }
CustomerCreate(map, file, id, customer, writeOk) ==
  LET newCustomer == Spread([id |-> id], customer)
      newMap == MapSet(map, id, newCustomer)
  IN [map |-> newMap, file |-> SaveToFile(newMap, file, writeOk), ret |-> newCustomer]

\* AccountDatabase.create: { id, ...account }
AccountCreate(map, file, id, account, writeOk) ==
  LET newAccount == Spread([id |-> id], account)
      newMap == MapSet(map, id, newAccount)
  IN [map |-> newMap, file |-> SaveToFile(newMap, file, writeOk), ret |-> newAccount]

\* TransactionDatabase.findByReference
\* (a faulty lookup that returns the first record whatever its reference)
FindByReference_any(map, reference) == IF map = <<>> THEN Undefined ELSE map[1]

FindByReference(map, reference) ==
  FindFirst(map, "reference", reference)

\* CustomerDatabase.findByCode
\* (a faulty lookup that never finds)
FindByCode_never(map, code) == Undefined

FindByCode(map, code) ==
  FindFirst(map, "code", code)

\* AccountDatabase.findByCustomerCode
\* (a faulty lookup that never finds)
FindByCustomerCode_never(map, customerCode) == Undefined

FindByCustomerCode(map, customerCode) ==
  FindFirst(map, "customerCode", customerCode)

---------------------------------------------------------------------------
(* Inputs: what the provider answers and what clients post.                *)

Codes == {"CUS_a", "CUS_b"}
References == {"ref_1", "ref_2"}

\* CreateCustomerResponseType['data']
CustomerData(code) ==
  [email |-> "orjimichael2240@gmail.com", first_name |-> "Michael",
   last_name |-> "Orji", phone |-> "08148863871", customer_code |-> code]

\* CreateVirtualAccountResponseType['data'], as the handler reads it
AccountData(code) ==
  [bank |-> [name |-> "Titan Paystack", id |-> 1, slug |-> "titan-paystack"],
   account_name |-> "Michael Orji", account_number |-> "9930000737",
   assigned |-> TRUE, currency |-> "NGN", customer |-> [customer_code |-> code]]

\* InitPaymentType['data'], as the handler reads it
InitData(reference) ==
  [reference |-> reference,
   authorization_url |-> IF reference = "ref_1"
                         THEN "https://checkout.paystack.com/1"
                         ELSE "https://checkout.paystack.com/2"]

\* A provider answer: the call rejects, or resolves to a body whose data may
\* be missing.
Rejected == [rejected |-> TRUE]
CustomerResponses == {Rejected, EmptyObject} \cup {[data |-> CustomerData(c)] : c \in Codes}
AccountResponses == {Rejected, EmptyObject} \cup {[data |-> AccountData(c)] : c \in Codes}
InitResponses == {Rejected, EmptyObject} \cup {[data |-> InitData(r)] : r \in References}

\* Bodies posted to /initialize-payment.
InitBodies == {EmptyObject, [email |-> "payer@example.com", amount |-> 70]}

\* ChargeSuccessWebhookType['data'], the fields the handler reads.
ChargeData(reference, code) ==
  [reference |-> reference, amount |-> 5000, customer |-> [customer_code |-> code]]

\* Bodies posted to /webhook: well formed, without customer, without
\* reference, without data, another event, and {}.
WebhookBodies ==
  {[event |-> "charge.success", data |-> ChargeData("ref_1", "CUS_a")],
   [event |-> "charge.success", data |-> ChargeData("ref_2", "CUS_b")],
   [event |-> "charge.success", data |-> [reference |-> "ref_1", amount |-> 5000]],
   [event |-> "charge.success",
    data |-> [amount |-> 5000, customer |-> [customer_code |-> "CUS_a"]]],
   [event |-> "charge.success"],
   [event |-> "charge.failed", data |-> ChargeData("ref_1", "CUS_a")],
   EmptyObject}

---------------------------------------------------------------------------
(* HTTP responses.                                                         *)

NoResponse == [route |-> "", status |-> 0, message |-> ""]
Response(route, status, message) == [route |-> route, status |-> status, message |-> message]

\* The global error handler: 500 with the raw error message.
ErrorHandler(route, message) == Response(route, 500, message)

NoReturn == [op |-> ""]

NoLast == [wrote |-> FALSE, stale |-> FALSE]

---------------------------------------------------------------------------
(* Initial state: the three stores constructed with no backing file.       *)

Init ==
  /\ transactionsFile = NoFile
  /\ customersFile = NoFile
  /\ accountsFile = NoFile
  /\ transactions = LoadFromFile(NoFile)
  /\ customers = LoadFromFile(NoFile)
  /\ accounts = LoadFromFile(NoFile)
  /\ issued = [transactions |-> 0, customers |-> 0, accounts |-> 0]
  /\ inflight = <<>>
  /\ res = NoResponse
  /\ ret = NoReturn
  /\ last = NoLast

---------------------------------------------------------------------------
(* Requests suspended on the provider.                                     *)

StoreOf(route) ==
  IF route = "/virtual-account" THEN "accounts"
  ELSE IF route = "/customer" THEN "customers"
  ELSE "transactions"

Stored == Len(transactions) + Len(customers) + Len(accounts)

CanAccept == Stored + Len(inflight) < MaxRecords

Remove(s, i) == SubSeq(s, 1, i - 1) \o SubSeq(s, i + 1, Len(s))

\* The requests left in flight once request i has completed; `written` is the
\* set of stores request i wrote, which makes what the others saw stale.
Others(i, written) ==
  LET rest == Remove(inflight, i)
  IN [k \in 1..Len(rest) |->
        IF StoreOf(rest[k].route) \in written
        THEN [rest[k] EXCEPT !.stale = TRUE] ELSE rest[k]]

Suspend(request) == inflight' = Append(inflight, Spread(request, [stale |-> FALSE]))

---------------------------------------------------------------------------
(* POST /virtual-account                                                   *)

VirtualAccountCall ==
  [path |-> "/dedicated_account",
   body |-> [customer |-> "CUS_zmb5em28zxtej5o", preferred_bank |-> "titan-paystack"]]

\* The handler up to its await: the provider call is issued.
VirtualAccountStart ==
  /\ CanAccept
  /\ Suspend([route |-> "/virtual-account", call |-> VirtualAccountCall])
  /\ UNCHANGED <<transactions, transactionsFile, customers, customersFile,
                 accounts, accountsFile, issued, res, ret, last>>

\* The handler after its await, run to its response in one synchronous step.
VirtualAccountResume(i, response, writeOk) ==
  /\ i \in 1..Len(inflight)
  /\ inflight[i].route = "/virtual-account"
  /\ UNCHANGED <<transactions, transactionsFile, customers, customersFile, ret>>
  /\ IF response = Rejected
     THEN /\ res' = ErrorHandler("/virtual-account", "Request failed")
          /\ inflight' = Others(i, {})
          /\ last' = [wrote |-> FALSE, stale |-> inflight[i].stale]
          /\ UNCHANGED <<accounts, accountsFile, issued>>
     ELSE IF "data" \notin DOMAIN response
     THEN /\ res' = Response("/virtual-account", 400, "Unable to create virtual account")
          /\ inflight' = Others(i, {})
          /\ last' = [wrote |-> FALSE, stale |-> inflight[i].stale]
          /\ UNCHANGED <<accounts, accountsFile, issued>>
     ELSE LET data == response.data
              isDuplicate == FindByCustomerCode(accounts, data.customer.customer_code)
              id == GenerateId(issued.accounts)
              created ==
                AccountCreate(accounts, accountsFile, id,
                  [metadata |-> data, bankName |-> data.bank.name,
                   bankId |-> data.bank.id, bankSlug |-> data.bank.slug,
                   accountName |-> data.account_name,
                   accountNumber |-> data.account_number,
                   assigned |-> data.assigned, currency |-> data.currency,
                   customerCode |-> data.customer.customer_code], writeOk)
          IN /\ IF isDuplicate = Undefined
                THEN /\ accounts' = created.map
                     /\ accountsFile' = created.file
                     /\ issued' = [issued EXCEPT !.accounts = id]
                     /\ inflight' = Others(i, {"accounts"})
                     /\ last' = [wrote |-> TRUE, stale |-> inflight[i].stale]
                ELSE /\ UNCHANGED <<accounts, accountsFile, issued>>
                     /\ inflight' = Others(i, {})
                     /\ last' = [wrote |-> FALSE, stale |-> inflight[i].stale]
             /\ res' = Response("/virtual-account", 200, "")

---------------------------------------------------------------------------
(* POST /customer                                                          *)

CustomerCall ==
  [path |-> "/customer",
   body |-> [first_name |-> "Michael", last_name |-> "Orji",
             email |-> "orjimichael2240@gmail.com", phone |-> "08148863871"]]

CustomerStart ==
  /\ CanAccept
  /\ Suspend([route |-> "/customer", call |-> CustomerCall])
  /\ UNCHANGED <<transactions, transactionsFile, customers, customersFile,
                 accounts, accountsFile, issued, res, ret, last>>

CustomerResume(i, response, writeOk) ==
  /\ i \in 1..Len(inflight)
  /\ inflight[i].route = "/customer"
  /\ UNCHANGED <<transactions, transactionsFile, accounts, accountsFile, ret>>
  /\ IF response = Rejected
     THEN /\ res' = ErrorHandler("/customer", "Request failed")
          /\ inflight' = Others(i, {})
          /\ last' = [wrote |-> FALSE, stale |-> inflight[i].stale]
          /\ UNCHANGED <<customers, customersFile, issued>>
     ELSE IF "data" \notin DOMAIN response
     THEN /\ res' = Response("/customer", 400, "Unable to create customer")
          /\ inflight' = Others(i, {})
          /\ last' = [wrote |-> FALSE, stale |-> inflight[i].stale]
          /\ UNCHANGED <<customers, customersFile, issued>>
     ELSE LET data == response.data
              isDuplicate == FindByCode(customers, data.customer_code)
              id == GenerateId(issued.customers)
              created ==
                CustomerCreate(customers, customersFile, id,
                  [email |-> data.email, firstName |-> data.first_name,
                   lastName |-> data.last_name, code |-> data.customer_code,
                   phoneNumber |-> data.phone, metadata |-> data], writeOk)
          IN /\ IF isDuplicate = Undefined
                THEN /\ customers' = created.map
                     /\ customersFile' = created.file
                     /\ issued' = [issued EXCEPT !.customers = id]
                     /\ inflight' = Others(i, {"customers"})
                     /\ last' = [wrote |-> TRUE, stale |-> inflight[i].stale]
                ELSE /\ UNCHANGED <<customers, customersFile, issued>>
                     /\ inflight' = Others(i, {})
                     /\ last' = [wrote |-> FALSE, stale |-> inflight[i].stale]
             /\ res' = Response("/customer", 200, "")

---------------------------------------------------------------------------
(* POST /initialize-payment                                                *)

\* const { email = 'test@example.com', amount = 50 } = req.body
DefaultEmail == "test@example.com"
DefaultAmount == 50
Destructure(body) ==
  [email |-> IF "email" \in DOMAIN body THEN body.email ELSE DefaultEmail,
   amount |-> IF "amount" \in DOMAIN body THEN body.amount ELSE DefaultAmount]

\* The provider is sent the amount in kobo.
KoboPerNaira == 100
InitCall(email, amount) ==
  [path |-> "/transaction/initialize",
   body |-> [email |-> email, amount |-> amount * KoboPerNaira]]

InitializePaymentStart(body) ==
  /\ CanAccept
  /\ LET local == Destructure(body)
     IN Suspend([route |-> "/initialize-payment", body |-> body,
                 amount |-> local.amount,
                 call |-> InitCall(local.email, local.amount)])
  /\ UNCHANGED <<transactions, transactionsFile, customers, customersFile,
                 accounts, accountsFile, issued, res, ret, last>>

\* The record the handler hands to transactionDb.create.
\* (a faulty handler stores the converted amount)
InitRecord_kobo(amount, data) ==
  [amount |-> amount * KoboPerNaira, reference |-> data.reference,
   authUrl |-> data.authorization_url]

InitRecord(amount, data) ==
  [amount |-> amount, reference |-> data.reference, authUrl |-> data.authorization_url]

\* (a faulty handler without the `!response.data` check: reading
\* response.data.reference throws, and the catch answers 500)
InitializePaymentResume_noCheck(i, response, writeOk) ==
  /\ i \in 1..Len(inflight)
  /\ inflight[i].route = "/initialize-payment"
  /\ UNCHANGED <<customers, customersFile, accounts, accountsFile, ret>>
  /\ IF response = Rejected \/ "data" \notin DOMAIN response
     THEN /\ res' = Response("/initialize-payment", 500, "Failed to initialize payment")
          /\ inflight' = Others(i, {})
          /\ last' = [wrote |-> FALSE, stale |-> inflight[i].stale]
          /\ UNCHANGED <<transactions, transactionsFile, issued>>
     ELSE LET id == GenerateId(issued.transactions)
              created ==
                TransactionCreate(transactions, transactionsFile, id,
                                  InitRecord(inflight[i].amount, response.data), writeOk)
          IN /\ transactions' = created.map
             /\ transactionsFile' = created.file
             /\ issued' = [issued EXCEPT !.transactions = id]
             /\ inflight' = Others(i, {"transactions"})
             /\ last' = [wrote |-> TRUE, stale |-> inflight[i].stale]
             /\ res' = Response("/initialize-payment", 200, "")

InitializePaymentResume(i, response, writeOk) ==
  /\ i \in 1..Len(inflight)
  /\ inflight[i].route = "/initialize-payment"
  /\ UNCHANGED <<customers, customersFile, accounts, accountsFile, ret>>
  /\ IF response = Rejected
     THEN /\ res' = Response("/initialize-payment", 500, "Failed to initialize payment")
          /\ inflight' = Others(i, {})
          /\ last' = [wrote |-> FALSE, stale |-> inflight[i].stale]
          /\ UNCHANGED <<transactions, transactionsFile, issued>>
     ELSE IF "data" \notin DOMAIN response
     THEN /\ res' = Response("/initialize-payment", 400, "Unable to initialize payment")
          /\ inflight' = Others(i, {})
          /\ last' = [wrote |-> FALSE, stale |-> inflight[i].stale]
          /\ UNCHANGED <<transactions, transactionsFile, issued>>
     ELSE LET id == GenerateId(issued.transactions)
              created ==
                TransactionCreate(transactions, transactionsFile, id,
                                  InitRecord(inflight[i].amount, response.data), writeOk)
          IN /\ transactions' = created.map
             /\ transactionsFile' = created.file
             /\ issued' = [issued EXCEPT !.transactions = id]
             /\ inflight' = Others(i, {"transactions"})
             /\ last' = [wrote |-> TRUE, stale |-> inflight[i].stale]
             /\ res' = Response("/initialize-payment", 200, "")

---------------------------------------------------------------------------
(* POST /webhook (synchronous: it never suspends)                          *)

\* chargeData.amount / 100: kobo to naira (the amounts posted are whole naira).
KoboToNaira(amount) == amount \div KoboPerNaira

\* Lines 192-198: the record found is changed in place, then passed to update.
\* (a faulty handler attaches the metadata and leaves the status)
ReconcileTransaction_metadataOnly(map, file, chargeData, writeOk) ==
  LET transaction == FindByReference(map, Field(chargeData, "reference")) IN
  IF transaction = Undefined
  THEN [map |-> map, file |-> file]
  ELSE LET changed == Spread(transaction, [metadata |-> chargeData])
           updated == Update(MapSet(map, changed.id, changed), file, changed.id,
                             changed, writeOk)
       IN [map |-> updated.map, file |-> updated.file]

\* (a faulty handler that sets a completed transaction back to pending)
ReconcileTransaction_toggle(map, file, chargeData, writeOk) ==
  LET transaction == FindByReference(map, Field(chargeData, "reference")) IN
  IF transaction = Undefined
  THEN [map |-> map, file |-> file]
  ELSE LET changed == Spread(transaction,
                             [status |-> IF transaction.status = "completed"
                                         THEN "pending" ELSE "completed",
                              metadata |-> chargeData])
           updated == Update(MapSet(map, changed.id, changed), file, changed.id,
                             changed, writeOk)
       IN [map |-> updated.map, file |-> updated.file]

ReconcileTransaction(map, file, chargeData, writeOk) ==
  LET transaction == FindByReference(map, Field(chargeData, "reference")) IN
  IF transaction = Undefined
  THEN [map |-> map, file |-> file]
  ELSE LET changed == Spread(transaction,
                             [status |-> "completed", metadata |-> chargeData])
           updated == Update(MapSet(map, changed.id, changed), file, changed.id,
                             changed, writeOk)
       IN [map |-> updated.map, file |-> updated.file]

\* Lines 200-205, reached only when chargeData.customer is an object.
\* (a faulty handler that looks the customer up and credits nothing)
CreditCustomer_skip(map, file, chargeData, writeOk) == [map |-> map, file |-> file]

CreditCustomer(map, file, chargeData, writeOk) ==
  LET customer == FindByCode(map, Field(chargeData.customer, "customer_code")) IN
  IF customer = Undefined
  THEN [map |-> map, file |-> file]
  ELSE LET changed ==
             Spread(customer,
                    [walletBalance |->
                       JsAdd(customer, "walletBalance", KoboToNaira(chargeData.amount))])
           updated == Update(MapSet(map, changed.id, changed), file, changed.id,
                             changed, writeOk)
       IN [map |-> updated.map, file |-> updated.file]

\* What reading a property of undefined throws, and where.
ThrowsAtReference(body) == "data" \notin DOMAIN body
ThrowsAtCustomer(body) == ~ThrowsAtReference(body) /\ "customer" \notin DOMAIN body.data

\* The whole handler: the stores it leaves and the response sent.
WebhookEffect(body, writeOk) ==
  LET same == [transactions |-> transactions, transactionsFile |-> transactionsFile,
               customers |-> customers, customersFile |-> customersFile]
  IN
  IF Field(body, "event") # "charge.success"
  THEN Spread(same, [res |-> Response("/webhook", 200, "")])
  ELSE IF ThrowsAtReference(body)
  THEN Spread(same, [res |-> ErrorHandler("/webhook",
                        "Cannot read properties of undefined (reading 'reference')")])
  ELSE LET t == ReconcileTransaction(transactions, transactionsFile, body.data, writeOk)
           done == Spread(same, [transactions |-> t.map, transactionsFile |-> t.file])
       IN IF ThrowsAtCustomer(body)
          THEN Spread(done, [res |-> ErrorHandler("/webhook",
                          "Cannot read properties of undefined (reading 'customer_code')")])
          ELSE LET c == CreditCustomer(customers, customersFile, body.data, writeOk)
               IN Spread(done, [customers |-> c.map, customersFile |-> c.file,
                                res |-> Response("/webhook", 200, "")])

\* The stores a webhook changed, for the requests that are suspended.
Written(effect) ==
  (IF effect.transactions # transactions THEN {"transactions"} ELSE {})
    \cup (IF effect.customers # customers THEN {"customers"} ELSE {})

Balance(customer) ==
  IF "walletBalance" \in DOMAIN customer /\ customer.walletBalance[1] = "number"
  THEN customer.walletBalance[2] ELSE 0

Webhook(body, writeOk) ==
  LET effect == WebhookEffect(body, writeOk) IN
  /\ \A k \in 1..Len(effect.customers) : Balance(effect.customers[k]) <= MaxBalance
  /\ transactions' = effect.transactions
  /\ transactionsFile' = effect.transactionsFile
  /\ customers' = effect.customers
  /\ customersFile' = effect.customersFile
  /\ res' = effect.res
  /\ inflight' = [k \in 1..Len(inflight) |->
                    IF StoreOf(inflight[k].route) \in Written(effect)
                    THEN [inflight[k] EXCEPT !.stale = TRUE] ELSE inflight[k]]
  /\ last' = [wrote |-> Written(effect) # {}, stale |-> FALSE]
  /\ UNCHANGED <<accounts, accountsFile, issued, ret>>

---------------------------------------------------------------------------
(* Process restart: the stores are constructed again from their files; the *)
(* requests that were suspended are gone.                                  *)

Restart ==
  /\ transactions' = LoadFromFile(transactionsFile)
  /\ customers' = LoadFromFile(customersFile)
  /\ accounts' = LoadFromFile(accountsFile)
  /\ inflight' = <<>>
  /\ res' = [NoResponse EXCEPT !.route = "restart"]
  /\ last' = NoLast
  /\ UNCHANGED <<transactionsFile, customersFile, accountsFile, issued, ret>>

---------------------------------------------------------------------------
(* The server: every write to a backing file succeeds.                     *)

VirtualAccountDone == \E i \in 1..Len(inflight), r \in AccountResponses :
                         VirtualAccountResume(i, r, TRUE)
CustomerDone == \E i \in 1..Len(inflight), r \in CustomerResponses :
                   CustomerResume(i, r, TRUE)
InitializePayment == \E body \in InitBodies : InitializePaymentStart(body)
InitializePaymentDone == \E i \in 1..Len(inflight), r \in InitResponses :
                            InitializePaymentResume(i, r, TRUE)
WebhookReceived == \E body \in WebhookBodies : Webhook(body, TRUE)

Next ==
  \/ VirtualAccountStart
  \/ VirtualAccountDone
  \/ CustomerStart
  \/ CustomerDone
  \/ InitializePayment
  \/ InitializePaymentDone
  \/ WebhookReceived
  \/ Restart

Spec == Init /\ [][Next]_vars

---------------------------------------------------------------------------
(* The store classes called directly, one store per behaviour: create,     *)
(* findById, update and delete with any typed argument, stored id or not.  *)

StoreNames == {"transactions", "customers", "accounts"}

\* Omit<Transaction, 'id'>
TransactionInputs ==
  {[amount |-> 50, reference |-> "ref_1", authUrl |-> "https://checkout.paystack.com/1"],
   [amount |-> 70, reference |-> "ref_2", authUrl |-> "https://checkout.paystack.com/2",
    status |-> "completed", metadata |-> ChargeData("ref_2", "CUS_b")]}

\* Partial<Omit<Transaction, 'id'>>
TransactionUpdates ==
  {EmptyObject, [status |-> "completed"], [amount |-> 90],
   [status |-> "failed", metadata |-> ChargeData("ref_1", "CUS_a")]}

\* Omit<Customer, 'id'>
CustomerInputs ==
  {[email |-> "a@example.com", firstName |-> "Ada", lastName |-> "Obi", code |-> "CUS_a"],
   [email |-> "b@example.com", firstName |-> "Bayo", lastName |-> "Ade", code |-> "CUS_b",
    metadata |-> CustomerData("CUS_b")]}

\* Partial<Omit<Customer, 'id'>>
CustomerUpdates ==
  {EmptyObject, [email |-> "new@example.com"],
   [code |-> "CUS_b", metadata |-> CustomerData("CUS_b")]}

\* Omit<Account, 'id'>
AccountInputs ==
  {[bankName |-> "Titan Paystack", bankId |-> 1, bankSlug |-> "titan-paystack",
    accountName |-> "Ada Obi", accountNumber |-> "9930000737", assigned |-> TRUE,
    currency |-> "NGN", customerCode |-> "CUS_a"],
   [bankName |-> "Test Bank", bankId |-> 2, bankSlug |-> "test-bank",
    accountName |-> "Bayo Ade", accountNumber |-> "9930000738", assigned |-> FALSE,
    currency |-> "NGN", customerCode |-> "CUS_b", metadata |-> AccountData("CUS_b")]}

\* Partial<Omit<Account, 'id'>>
AccountUpdates ==
  {EmptyObject, [assigned |-> TRUE], [accountName |-> "A. Obi", currency |-> "USD"]}

InputsOf(store) ==
  IF store = "transactions" THEN TransactionInputs
  ELSE IF store = "customers" THEN CustomerInputs ELSE AccountInputs

UpdatesOf(store) ==
  IF store = "transactions" THEN TransactionUpdates
  ELSE IF store = "customers" THEN CustomerUpdates ELSE AccountUpdates

MapOf(store) ==
  IF store = "transactions" THEN transactions
  ELSE IF store = "customers" THEN customers ELSE accounts

FileOf(store) ==
  IF store = "transactions" THEN transactionsFile
  ELSE IF store = "customers" THEN customersFile ELSE accountsFile

\* The class's create.
CreateOf(store, id, input, writeOk) ==
  IF store = "transactions"
  THEN TransactionCreate(transactions, transactionsFile, id, input, writeOk)
  ELSE IF store = "customers"
  THEN CustomerCreate(customers, customersFile, id, input, writeOk)
  ELSE AccountCreate(accounts, accountsFile, id, input, writeOk)

\* The other two stores have not been used.
Alone(store) == \A other \in StoreNames \ {store} : issued[other] = 0

\* The store takes the map and file a call leaves; the other stores keep theirs.
Leaves(store, out) ==
  /\ transactions' = IF store = "transactions" THEN out.map ELSE transactions
  /\ transactionsFile' = IF store = "transactions" THEN out.file ELSE transactionsFile
  /\ customers' = IF store = "customers" THEN out.map ELSE customers
  /\ customersFile' = IF store = "customers" THEN out.file ELSE customersFile
  /\ accounts' = IF store = "accounts" THEN out.map ELSE accounts
  /\ accountsFile' = IF store = "accounts" THEN out.file ELSE accountsFile

Called(op, store, id, input, result) ==
  ret' = [op |-> op, store |-> store, id |-> id, input |-> input, result |-> result]

StoreCreate(store, input, writeOk) ==
  /\ Alone(store)
  /\ issued[store] < MaxIds
  /\ LET id == GenerateId(issued[store])
         out == CreateOf(store, id, input, writeOk)
     IN /\ Leaves(store, out)
        /\ issued' = [issued EXCEPT ![store] = id]
        /\ Called("create", store, id, input, out.ret)
  /\ UNCHANGED <<inflight, res, last>>

StoreFindById(store, id) ==
  /\ Alone(store)
  /\ Called("findById", store, id, EmptyObject, FindById(MapOf(store), id))
  /\ UNCHANGED <<transactions, transactionsFile, customers, customersFile,
                 accounts, accountsFile, issued, inflight, res, last>>

StoreUpdate(store, id, updates, writeOk) ==
  /\ Alone(store)
  /\ LET out == Update(MapOf(store), FileOf(store), id, updates, writeOk)
     IN /\ Leaves(store, out)
        /\ Called("update", store, id, updates, out.ret)
  /\ UNCHANGED <<issued, inflight, res, last>>

StoreDelete(store, id, writeOk) ==
  /\ Alone(store)
  /\ LET out == Delete(MapOf(store), FileOf(store), id, writeOk)
     IN /\ Leaves(store, out)
        /\ Called("delete", store, id, EmptyObject, out.ret)
  /\ UNCHANGED <<issued, inflight, res, last>>

\* Ids a caller may pass: those handed out, and one never handed out.
Ids == 1..(MaxIds + 1)

CreateCalled == \E store \in StoreNames : \E input \in InputsOf(store) :
                   StoreCreate(store, input, TRUE)
FindByIdCalled == \E store \in StoreNames, id \in Ids : StoreFindById(store, id)
UpdateCalled == \E store \in StoreNames, id \in Ids : \E updates \in UpdatesOf(store) :
                   StoreUpdate(store, id, updates, TRUE)
DeleteCalled == \E store \in StoreNames, id \in Ids : StoreDelete(store, id, TRUE)

StoreNext ==
  \/ CreateCalled
  \/ FindByIdCalled
  \/ UpdateCalled
  \/ DeleteCalled

StoreSpec == Init /\ [][StoreNext]_vars

---------------------------------------------------------------------------
(* Properties.                                                             *)

\* The first record of a sequence whose field has the value, found by index.
FirstWith(records, field, value) ==
  records[CHOOSE i \in 1..Len(records) :
            /\ Field(records[i], field) = value
            /\ \A j \in 1..(i - 1) : Field(records[j], field) # value]

HasWith(records, field, value) ==
  \E i \in 1..Len(records) : Field(records[i], field) = value

CountWith(records, field, value) ==
  Cardinality({i \in 1..Len(records) : Field(records[i], field) = value})

IsChargeSuccess(body) == Field(body, "event") = "charge.success" /\ "data" \in DOMAIN body

\* C1: when a transaction with reference r is stored and pending, a
\* charge.success webhook whose data.reference is r leaves the record that a
\* lookup by reference r returns with status completed and the event's data
\* as metadata, in the map and in transactions.json.
C1_WebhookCompletesTransaction ==
  [][res'.route = "/webhook" =>
       \A body \in WebhookBodies :
         (/\ Webhook(body, TRUE)
          /\ IsChargeSuccess(body)
          /\ "reference" \in DOMAIN body.data
          /\ \E i \in 1..Len(transactions) :
               /\ transactions[i].reference = body.data.reference
               /\ transactions[i].status = "pending")
         => /\ HasWith(transactions', "reference", body.data.reference)
            /\ LET found == FirstWith(transactions', "reference", body.data.reference)
               IN /\ found.status = "completed"
                  /\ Field(found, "metadata") = body.data
            /\ transactionsFile'.exists
            /\ HasWith(transactionsFile'.data, "reference", body.data.reference)
            /\ LET saved == FirstWith(transactionsFile'.data, "reference",
                                      body.data.reference)
               IN /\ saved.status = "completed"
                  /\ Field(saved, "metadata") = body.data]_vars

\* C1 witness: a webhook has just completed a stored transaction, in the map
\* and in the file.
C1_Witness ==
  /\ res.route = "/webhook"
  /\ last.wrote
  /\ \E i \in 1..Len(transactions) :
       /\ transactions[i].status = "completed"
       /\ "metadata" \in DOMAIN transactions[i]
       /\ transactions[i].metadata.reference = transactions[i].reference
       /\ transactionsFile.data[i] = transactions[i]

\* C2: a webhook whose data.reference matches no stored transaction leaves
\* the transactions map and transactions.json as they were, whatever the
\* event and the rest of the body.
C2_UnknownReferenceLeavesTransactions ==
  [][res'.route = "/webhook" =>
       \A body \in WebhookBodies :
         (/\ Webhook(body, TRUE)
          /\ LET reference == IF "data" \in DOMAIN body
                              THEN Field(body.data, "reference") ELSE "undefined"
             IN \A i \in 1..Len(transactions) : transactions[i].reference # reference)
         => /\ transactions' = transactions
            /\ transactionsFile' = transactionsFile]_vars

\* C2 witness: a charge.success webhook for ref_1 has been handled (it threw
\* at the missing customer) while only ref_2 transactions are stored.
C2_Witness ==
  /\ res.route = "/webhook"
  /\ res.message = "Cannot read properties of undefined (reading 'customer_code')"
  /\ transactions # <<>>
  /\ \A i \in 1..Len(transactions) :
       transactions[i].reference = "ref_2" /\ transactions[i].status = "pending"

\* C3: every response of POST /webhook has status 200.
C3_WebhookAlways200 == res.route = "/webhook" => res.status = 200

\* C4: once /customer has completed with a provider answer carrying
\* customer_code c, exactly one customer with code c is stored, and when one
\* was stored before, the handler created nothing.
C4_FindOrCreateCustomer ==
  [][res'.route = "/customer" =>
       \A i \in 1..Len(inflight), response \in CustomerResponses :
         (CustomerResume(i, response, TRUE) /\ "data" \in DOMAIN response)
         => /\ CountWith(customers', "code", response.data.customer_code) = 1
            /\ CountWith(customersFile'.data, "code", response.data.customer_code) = 1
            /\ HasWith(customers, "code", response.data.customer_code)
               => customers' = customers /\ customersFile' = customersFile]_vars

\* C4 witness: /customer has completed with 200 without creating, the
\* customer of an earlier invocation being stored.
C4_Witness ==
  /\ res = Response("/customer", 200, "")
  /\ ~last.wrote
  /\ Len(customers) = 1
  /\ issued.customers = 1

\* C5: a suspended /initialize-payment request has called the provider with
\* 100 times its amount (50 when the body has none); when the provider
\* answers with data, one transaction is appended, with the amount as
\* posted, the provider's reference and authorization URL, and status pending.
C5_InitializePaymentAmounts ==
  [][/\ \A k \in 1..Len(inflight') :
          inflight'[k].route = "/initialize-payment"
          => inflight'[k].call.body.amount =
               100 * (IF "amount" \in DOMAIN inflight'[k].body
                      THEN inflight'[k].body.amount ELSE 50)
     /\ \A i \in 1..Len(inflight), response \in InitResponses :
          (InitializePaymentResume(i, response, TRUE) /\ "data" \in DOMAIN response)
          => LET a == IF "amount" \in DOMAIN inflight[i].body
                      THEN inflight[i].body.amount ELSE 50
                 stored == transactions'[Len(transactions')]
             IN /\ Len(transactions') = Len(transactions) + 1
                /\ SubSeq(transactions', 1, Len(transactions)) = transactions
                /\ DOMAIN stored = {"id", "amount", "reference", "authUrl", "status"}
                /\ stored.amount = a
                /\ stored.reference = response.data.reference
                /\ stored.authUrl = response.data.authorization_url
                /\ stored.status = "pending"
                /\ transactionsFile'.data = transactions']_vars

\* C5 witness: /initialize-payment has completed with 200 for a body without
\* amount, and the transaction stored last has amount 50 and is pending.
C5_Witness ==
  /\ res = Response("/initialize-payment", 200, "")
  /\ last.wrote
  /\ transactions # <<>>
  /\ transactions[Len(transactions)].amount = 50
  /\ transactions[Len(transactions)].status = "pending"

---------------------------------------------------------------------------
(* Properties of the store classes (StoreSpec): ret' names the call made.  *)

MapAfter(store) ==
  IF store = "transactions" THEN transactions'
  ELSE IF store = "customers" THEN customers' ELSE accounts'

FileAfter(store) ==
  IF store = "transactions" THEN transactionsFile'
  ELSE IF store = "customers" THEN customersFile' ELSE accountsFile'

IsStored(map, id) == \E i \in 1..Len(map) : map[i].id = id

\* C6: update(id, partial) on a stored id changes, in that record only, the
\* fields of partial and no other field, and no other record; on an id that
\* is not stored it returns undefined and leaves the map and the file alone.
C6_UpdateFrame ==
  [][ret'.op = "update" =>
       LET store == ret'.store
           id == ret'.id
           partial == ret'.input
           before == MapOf(store)
           after == MapAfter(store)
       IN /\ \A other \in StoreNames \ {store} :
               MapAfter(other) = MapOf(other) /\ FileAfter(other) = FileOf(other)
          /\ IF IsStored(before, id)
             THEN /\ Len(after) = Len(before)
                  /\ \A i \in 1..Len(before) :
                       IF before[i].id = id
                       THEN /\ DOMAIN after[i] = (DOMAIN before[i]) \cup (DOMAIN partial)
                            /\ \A f \in DOMAIN partial : after[i][f] = partial[f]
                            /\ \A f \in (DOMAIN before[i]) \ (DOMAIN partial) :
                                 after[i][f] = before[i][f]
                            /\ ret'.result = after[i]
                       ELSE after[i] = before[i]
             ELSE /\ ret'.result = Undefined
                  /\ after = before
                  /\ FileAfter(store) = FileOf(store)]_vars

\* C6 witness: update has changed a field of one of two stored records.
C6_Witness ==
  /\ ret.op = "update"
  /\ ret.input # EmptyObject
  /\ ret.result # Undefined
  /\ Len(MapOf(ret.store)) = 2
  /\ \E i \in 1..2 : MapOf(ret.store)[i] = ret.result

\* C7: a restart, which constructs the stores again from their files, leaves
\* getAll() of every store as it was before the restart.
C7_ReloadKeepsGetAll ==
  [][Restart => /\ GetAll(transactions)' = GetAll(transactions)
                /\ GetAll(customers)' = GetAll(customers)
                /\ GetAll(accounts)' = GetAll(accounts)]_vars

\* C8: delete(id) returns true exactly when id was stored, no record with
\* that id is stored afterwards, and on an id that was not stored the map and
\* the file are left alone.
C8_Delete ==
  [][ret'.op = "delete" =>
       LET store == ret'.store
           id == ret'.id
           before == MapOf(store)
           after == MapAfter(store)
       IN /\ ret'.result = IsStored(before, id)
          /\ ~IsStored(after, id)
          /\ ~IsStored(before, id)
             => after = before /\ FileAfter(store) = FileOf(store)]_vars

\* C8 witness: delete has returned true and removed one of two records.
C8_Witness ==
  /\ ret.op = "delete"
  /\ ret.result = TRUE
  /\ Len(MapOf(ret.store)) = 1
  /\ MapOf(ret.store)[1].id # ret.id

\* C9: the record create returns has the input's fields with the input's
\* values, a generated id no stored record had, and, in the transaction
\* store, status pending; it is the record stored under that id, and
\* findById returns the record stored under the id it is given.
C9_Create ==
  [][/\ ret'.op = "create" =>
          LET store == ret'.store
              input == ret'.input
              record == ret'.result
              forced == IF store = "transactions" THEN {"status"} ELSE {}
              after == MapAfter(store)
          IN /\ DOMAIN record = (DOMAIN input) \cup {"id"} \cup forced
             /\ \A f \in (DOMAIN input) \ forced : record[f] = input[f]
             /\ store = "transactions" => record.status = "pending"
             /\ ~IsStored(MapOf(store), record.id)
             /\ \E i \in 1..Len(after) :
                  /\ after[i] = record
                  /\ \A j \in 1..Len(after) : after[j].id = record.id => j = i
     /\ ret'.op = "findById" =>
          LET before == MapOf(ret'.store)
          IN IF IsStored(before, ret'.id)
             THEN \E i \in 1..Len(before) :
                    before[i].id = ret'.id /\ ret'.result = before[i]
             ELSE ret'.result = Undefined]_vars

\* C9 witness: create has returned a pending transaction for an input that
\* carries the other fields and a status of its own.
C9_Witness ==
  /\ ret.op = "create"
  /\ ret.store = "transactions"
  /\ "status" \in DOMAIN ret.input
  /\ ret.result.status = "pending"
  /\ ret.result.reference = ret.input.reference
  /\ \E i \in 1..Len(transactions) : transactions[i] = ret.result

---------------------------------------------------------------------------
(* Concurrent requests (Spec).                                             *)

\* A record some request created is no longer in the store's map or file.
Missing(store) ==
  \/ Len(MapOf(store)) < issued[store]
  \/ Len(FileOf(store).data) < issued[store]

\* Every record is kept, with every field but those the webhook writes, and
\* a completed transaction stays completed.
Kept(before, after) ==
  /\ Len(after) >= Len(before)
  /\ \A i \in 1..Len(before) : \A f \in DOMAIN before[i] :
       /\ f \in DOMAIN after[i]
       /\ f \notin {"status", "metadata", "walletBalance"} => after[i][f] = before[i][f]
       /\ (f = "status" /\ before[i][f] = "completed") => after[i][f] = "completed"

---------------------------------------------------------------------------
(* The store classes called directly, where writeFileSync may throw: the   *)
(* catch in saveToFile logs the error and the operation goes on.           *)

\* A write fails only while the file holds what the map holds: one failed
\* write is outstanding at a time.
FileCurrent(store) == FileOf(store).data = MapOf(store)
MayFail(store, writeOk) == writeOk \/ FileCurrent(store)

CreateTried == \E store \in StoreNames, writeOk \in BOOLEAN :
                  /\ MayFail(store, writeOk)
                  /\ issued[store] < MaxFaultIds
                  /\ \E input \in InputsOf(store) : StoreCreate(store, input, writeOk)
UpdateTried == \E store \in StoreNames, id \in Ids, writeOk \in BOOLEAN :
                  /\ MayFail(store, writeOk)
                  /\ \E updates \in UpdatesOf(store) :
                       StoreUpdate(store, id, updates, writeOk)
DeleteTried == \E store \in StoreNames, id \in Ids, writeOk \in BOOLEAN :
                  /\ MayFail(store, writeOk)
                  /\ StoreDelete(store, id, writeOk)

FaultNext ==
  \/ CreateTried
  \/ UpdateTried
  \/ DeleteTried

FaultSpec == Init /\ [][FaultNext]_vars

\* What a call whose write fails must leave, `normal` being what the same call
\* leaves when its write succeeds: the normal result and map, the file as it
\* was, and a file that differs from the map when the call changed a map the
\* file agreed with.
FailedWriteKeepsMemory(store, normal) ==
  /\ ret'.result = normal.ret
  /\ MapAfter(store) = normal.map
  /\ FileAfter(store) = FileOf(store)
  /\ (FileCurrent(store) /\ normal.map # MapOf(store))
     => FileAfter(store).data # MapAfter(store)

\* What a call that reaches saveToFile with a write that succeeds must leave.
WriteMakesFileEqual(store) ==
  /\ FileAfter(store).exists
  /\ FileAfter(store).data = MapAfter(store)

\* C11: when the write inside create, update or delete fails, the call
\* returns what it returns otherwise and the map keeps the change, the file
\* keeps its earlier contents and so differs from the map; a later call of
\* that store whose write succeeds makes the file equal to the map.
C11_WriteFailure ==
  [][ret'.op \in {"create", "update", "delete"} =>
       LET store == ret'.store
           id == ret'.id
           input == ret'.input
           map == MapOf(store)
           file == FileOf(store)
       IN /\ ret'.op = "create" =>
               /\ StoreCreate(store, input, FALSE)
                  => FailedWriteKeepsMemory(store, CreateOf(store, id, input, TRUE))
               /\ StoreCreate(store, input, TRUE) => WriteMakesFileEqual(store)
          /\ ret'.op = "update" =>
               /\ StoreUpdate(store, id, input, FALSE)
                  => FailedWriteKeepsMemory(store, Update(map, file, id, input, TRUE))
               /\ (StoreUpdate(store, id, input, TRUE) /\ IsStored(map, id))
                  => WriteMakesFileEqual(store)
          /\ ret'.op = "delete" =>
               /\ StoreDelete(store, id, FALSE)
                  => FailedWriteKeepsMemory(store, Delete(map, file, id, TRUE))
               /\ (StoreDelete(store, id, TRUE) /\ IsStored(map, id))
                  => WriteMakesFileEqual(store)]_vars

\* C11 witness: update has returned the changed record and the map holds
\* it, while the file, whose write failed, holds the record as it was.
C11_Witness ==
  /\ ret.op = "update"
  /\ ret.result # Undefined
  /\ MapOf(ret.store) = <<ret.result>>
  /\ FileOf(ret.store).exists
  /\ Len(FileOf(ret.store).data) = 1
  /\ FileOf(ret.store).data[1] # ret.result

---------------------------------------------------------------------------
(* The handlers and the webhook (Spec).                                    *)

\* C12: once /initialize-payment has completed with a provider answer
\* carrying reference r, exactly one transaction with reference r is stored,
\* and when one was stored before, the handler created nothing.
C12_FindOrCreateTransaction ==
  [][\A i \in 1..Len(inflight), response \in InitResponses :
       (InitializePaymentResume(i, response, TRUE) /\ "data" \in DOMAIN response)
       => /\ CountWith(transactions', "reference", response.data.reference) = 1
          /\ HasWith(transactions, "reference", response.data.reference)
             => transactions' = transactions /\ transactionsFile' = transactionsFile]_vars

\* The reference a webhook body carries, as the lookup compares it.
ReferenceOf(body) == Field(body.data, "reference")

UnknownReference(body) ==
  \A i \in 1..Len(transactions) : transactions[i].reference # ReferenceOf(body)

StoresUnchanged ==
  UNCHANGED <<transactions, transactionsFile, customers, customersFile,
              accounts, accountsFile, issued>>

\* C14: when the provider answers a handler's call with a body that has no
\* data, the handler answers 400 with its fixed message and changes no map
\* and no file.
C14_EmptyResponse400 ==
  [][res'.route \in {"/virtual-account", "/customer", "/initialize-payment"} =>
       \A i \in 1..Len(inflight) :
         /\ VirtualAccountResume(i, EmptyObject, TRUE)
            => /\ res' = Response("/virtual-account", 400, "Unable to create virtual account")
               /\ StoresUnchanged
         /\ CustomerResume(i, EmptyObject, TRUE)
            => /\ res' = Response("/customer", 400, "Unable to create customer")
               /\ StoresUnchanged
         /\ InitializePaymentResume(i, EmptyObject, TRUE)
            => /\ res' = Response("/initialize-payment", 400, "Unable to initialize payment")
               /\ StoresUnchanged]_vars

\* C14 witness: /initialize-payment has answered 400 while a transaction of
\* an earlier request is stored, the file holding what the map holds.
C14_Witness ==
  /\ res = Response("/initialize-payment", 400, "Unable to initialize payment")
  /\ ~last.wrote
  /\ Len(transactions) = 1
  /\ transactionsFile.data = transactions

\* C15: over any sequence of requests from an empty transaction store, every
\* stored transaction is pending or completed, never failed; every step
\* keeps each stored transaction, with its status or with pending changed to
\* completed, so a completed transaction never returns to pending.
C15_StatusLifecycle ==
  [][/\ \A j \in 1..Len(transactions') :
          transactions'[j].status \in {"pending", "completed"}
     /\ \A j \in 1..Len(transactionsFile'.data) :
          transactionsFile'.data[j].status \in {"pending", "completed"}
     /\ \A i \in 1..Len(transactions) :
          \E j \in 1..Len(transactions') :
            /\ transactions'[j].id = transactions[i].id
            /\ \/ transactions'[j].status = transactions[i].status
               \/ /\ transactions[i].status = "pending"
                  /\ transactions'[j].status = "completed"]_vars

\* C15 witness: after two payment initializations and a webhook, one
\* transaction is completed, with the event as metadata, and one is pending.
C15_Witness ==
  /\ res = Response("/webhook", 200, "")
  /\ Len(transactions) = 2
  /\ transactions[1].status = "completed"
  /\ transactions[2].status = "pending"
  /\ transactions[1].reference = transactions[1].metadata.reference
  /\ transactionsFile.data = transactions

\* C16: a charge.success webhook whose data.customer.customer_code is the
\* code of a stored customer leaves that customer's walletBalance a number,
\* its balance before (0 when never credited) plus data.amount / 100, and
\* the same number in customers.json.
C16_WalletCredit ==
  [][\A body \in WebhookBodies :
       (/\ Webhook(body, TRUE)
        /\ IsChargeSuccess(body)
        /\ "customer" \in DOMAIN body.data
        /\ HasWith(customers, "code", body.data.customer.customer_code))
       => LET code == body.data.customer.customer_code
              old == FirstWith(customers, "code", code)
              new == FirstWith(customers', "code", code)
              saved == FirstWith(customersFile'.data, "code", code)
          IN /\ "walletBalance" \in DOMAIN new
             /\ new.walletBalance = Num(Balance(old) + body.data.amount \div 100)
             /\ saved.walletBalance = new.walletBalance]_vars

\* No two records of a sequence hold the same value in the field.
UniqueBy(records, field) ==
  \A i, j \in 1..Len(records) : records[i][field] = records[j][field] => i = j

\* C17: under every interleaving of /customer and /virtual-account requests
\* no two stored customers share a code and no two stored accounts share a
\* customerCode, in the maps and in the files.
C17_UniqueBusinessKeys ==
  /\ UniqueBy(customers, "code")
  /\ UniqueBy(customersFile.data, "code")
  /\ UniqueBy(accounts, "customerCode")
  /\ UniqueBy(accountsFile.data, "customerCode")

\* C17 witness: of two overlapping /virtual-account requests answered with
\* the same customer code, the second has completed with 200 after the first
\* had written, and created nothing.
C17_Witness ==
  /\ res = Response("/virtual-account", 200, "")
  /\ last.stale /\ ~last.wrote
  /\ Len(accounts) = 1
  /\ issued.accounts = 1

\* C18: with no failing write, each store's file, parsed, holds the records
\* getAll() returns, the values written by the webhook included.
C18_FileEqualsMemory ==
  \A store \in StoreNames : FileOf(store).data = GetAll(MapOf(store))

\* What the handler leaves when the body just handled is delivered again:
\* lines 192-198 and 200-205 applied to the stores the first delivery left.
Redelivery(body) ==
  LET t == ReconcileTransaction(transactions', transactionsFile', body.data, TRUE)
      c == IF "customer" \in DOMAIN body.data
           THEN CreditCustomer(customers', customersFile', body.data, TRUE)
           ELSE [map |-> customers', file |-> customersFile']
  IN [transactions |-> t.map, transactionsFile |-> t.file,
      customers |-> c.map, customersFile |-> c.file]

\* C19: delivering a charge.success event again leaves the transaction store
\* and the customer store as the first delivery left them.
C19_RedeliveryIdempotent ==
  [][\A body \in WebhookBodies :
       (Webhook(body, TRUE) /\ IsChargeSuccess(body))
       => /\ Redelivery(body).transactions = transactions'
          /\ Redelivery(body).transactionsFile = transactionsFile'
          /\ Redelivery(body).customers = customers'
          /\ Redelivery(body).customersFile = customersFile']_vars

====
